---- MODULE Spec2Model ----
(***************************************************************************)
(* A model of src/app.py: the Flask API for registration, login, the       *)
(* bearer-token auth gate and the products CRUD, over a document store.    *)
(*                                                                         *)
(* Strings are sequences of one-character strings, so that strip(),        *)
(* lower(), split(" "), re.sub(r'\D', ...) and the e-mail pattern are      *)
(* computed and not assumed.  Time is counted in ticks of half a second,   *)
(* so that the truncation of a token's exp to whole seconds shows.         *)
(***************************************************************************)
EXTENDS Integers, Sequences, FiniteSets, TLC

(***************************************************************************)
(* Characters and the str methods the validators use.                      *)
(***************************************************************************)
LowerSeq == << "a","b","c","d","e","f","g","h","i","j","k","l","m",
               "n","o","p","q","r","s","t","u","v","w","x","y","z" >>
UpperSeq == << "A","B","C","D","E","F","G","H","I","J","K","L","M",
               "N","O","P","Q","R","S","T","U","V","W","X","Y","Z" >>
LowerChars == { LowerSeq[i] : i \in DOMAIN LowerSeq }
UpperChars == { UpperSeq[i] : i \in DOMAIN UpperSeq }
DigitChars == { "0","1","2","3","4","5","6","7","8","9" }
Whitespace == { " ", "\t", "\n" }

RECURSIVE LStrip(_)
LStrip(s) == IF s # << >> /\ Head(s) \in Whitespace THEN LStrip(Tail(s)) ELSE s

RECURSIVE RStrip(_)
RStrip(s) ==
  IF s # << >> /\ s[Len(s)] \in Whitespace
  THEN RStrip(SubSeq(s, 1, Len(s) - 1))
  ELSE s

\* str.lstrip() where str.strip() is meant
LeftStrip(s) == LStrip(s)

\* str.strip()
Strip(s) == RStrip(LStrip(s))

LowerChar(c) ==
  IF c \in UpperChars
  THEN LowerSeq[CHOOSE i \in DOMAIN UpperSeq : UpperSeq[i] = c]
  ELSE c

\* str.lower()
Lower(s) == [ i \in DOMAIN s |-> LowerChar(s[i]) ]

\* re.sub(r'\D', '', s)
DigitsOf(s) == SelectSeq(s, LAMBDA c : c \in DigitChars)

\* str.isdigit()
IsDigit(s) == s # << >> /\ \A i \in DOMAIN s : s[i] \in DigitChars

\* email_pattern = r'^[a-zA-Z0-9._%+-]+@[a-zA-Z0-9.-]+\.[a-zA-Z]{2,}$'
EmailLocalChars == LowerChars \cup UpperChars \cup DigitChars \cup { ".", "_", "%", "+", "-" }
EmailDomainChars == LowerChars \cup UpperChars \cup DigitChars \cup { ".", "-" }
EmailTldChars == LowerChars \cup UpperChars

\* re.match(email_pattern, s), for s without a trailing newline (s is stripped)
MatchEmail(s) ==
  \E a \in DOMAIN s, d \in DOMAIN s :
    /\ s[a] = "@"
    /\ s[d] = "."
    /\ 1 < a
    /\ a + 1 < d
    /\ d + 2 <= Len(s)
    /\ \A i \in 1 .. (a - 1) : s[i] \in EmailLocalChars
    /\ \A i \in (a + 1) .. (d - 1) : s[i] \in EmailDomainChars
    /\ \A i \in (d + 1) .. Len(s) : s[i] \in EmailTldChars

\* dict.get(key, '')
Get(data, f) == IF f \in DOMAIN data THEN data[f] ELSE << >>

\* the errors dict of a validator that returns at the first violation
FirstError(msgs) ==
  LET bad == { g \in DOMAIN msgs : msgs[g] # "" }
  IN  [ f \in (IF bad = { } THEN { } ELSE { CHOOSE g \in bad : TRUE }) |-> msgs[f] ]

\* the errors dict: the fields that have a message, with the message
ErrorsOf(msgs) == [ f \in { g \in DOMAIN msgs : msgs[g] # "" } |-> msgs[f] ]

(***************************************************************************)
(* validate_auth_data and validate_registration_data.                      *)
(***************************************************************************)
NameError(data) ==
  LET name == Strip(Get(data, "name"))
  IN  IF name = << >> THEN "Name is required"
      ELSE IF Len(name) < 2 THEN "Name must be at least 2 characters long"
      ELSE ""

EmailError(data) ==
  LET email == Lower(Strip(Get(data, "email")))
  IN  IF email = << >> THEN "Email is required"
      ELSE IF ~ MatchEmail(email) THEN "Must be a valid email format"
      ELSE ""

PasswordError(data) ==
  LET password == Get(data, "password")
  IN  IF password = << >> THEN "Password is required"
      ELSE IF Len(password) < 6 THEN "Password must be at least 6 characters long"
      ELSE ""

validate_auth_data(data, is_login) ==
  ErrorsOf([ name |-> IF is_login THEN "" ELSE NameError(data),
             email |-> EmailError(data),
             password |-> PasswordError(data) ])

FullNameError(data) ==
  LET full_name == Strip(Get(data, "fullName"))
  IN  IF full_name = << >> THEN "Full Name is required"
      ELSE IF Len(full_name) < 2 THEN "Full Name must be at least 2 characters long"
      ELSE ""

PhoneError(data) ==
  LET phone == Strip(Get(data, "phone"))
      phone_digits == DigitsOf(phone)
  IN  IF phone = << >> THEN "Phone number is required"
      ELSE IF Len(phone_digits) < 10 \/ Len(phone_digits) > 15
           THEN "Phone must contain 10 to 15 digits only"
      ELSE IF ~ IsDigit(phone_digits) THEN "Phone must contain digits only"
      ELSE ""

ConfirmPasswordError(data) ==
  LET password == Get(data, "password")
      confirm_password == Get(data, "confirmPassword")
  IN  IF confirm_password = << >> THEN "Confirm Password is required"
      ELSE IF password # confirm_password THEN "Passwords do not match"
      ELSE ""

validate_registration_data(data) ==
  ErrorsOf([ fullName |-> FullNameError(data),
             email |-> EmailError(data),
             phone |-> PhoneError(data),
             password |-> PasswordError(data),
             confirmPassword |-> ConfirmPasswordError(data) ])

(***************************************************************************)
(* Bounds of the model.                                                    *)
(***************************************************************************)
\* ticks of the clock per second: sub-second instants exist
TicksPerSec == 2
\* the clock reaches 0 .. MaxDays token lifetimes after start, on the second or
\* on the last tick before the next one
MaxDays == 1
\* ObjectIds the store ever hands out
MaxUsers == 2
\* product ids the service ever hands out
MaxProducts == 1

\* timedelta(hours=24), in seconds
TokenLifetime == 86400

Instants ==
  { k * TokenLifetime * TicksPerSec + o : k \in 0 .. MaxDays, o \in { 0, TicksPerSec - 1 } }

(***************************************************************************)
(* State.  users and products are the contents of the two collections,    *)
(* connected says whether init_database() returned them or None, and       *)
(* unique_email whether it got the unique index on email made.  tokens is  *)
(* the token the service has issued that a client holds, if any.           *)
(* pending[w] is the request worker w is in the middle of, between two     *)
(* store operations.  last is the response of the step that led to this    *)
(* state, with the request it answers; it is NoResponse after a step that  *)
(* answers nothing.                                                        *)
(***************************************************************************)
VARIABLES connected, unique_email, users, products, now, nextOid, nextUuid, tokens,
          pending, last

vars ==
  << connected, unique_email, users, products, now, nextOid, nextUuid, tokens, pending,
     last >>

Workers == { "w1", "w2" }
Idle == [ pc |-> "idle" ]

(***************************************************************************)
(* PyJWT, as jwt.encode and jwt.decode use it.                             *)
(***************************************************************************)
\* app.config['SECRET_KEY']
SECRET_KEY == "SECRET_KEY"

\* calendar.timegm(dt.utctimetuple()): a datetime as whole seconds
Timegm(t) == t \div TicksPerSec

\* jwt.encode({'user_id', 'email', 'exp': utcnow() + 24h}, SECRET_KEY, 'HS256').
\* key is the key the signature was made with.  issued_at is no part of the
\* token: it is the clock at which it was made, kept for the statements about
\* a token's age.
JwtEncode(user_id, email, t) ==
  [ user_id |-> user_id, email |-> email,
    exp |-> Timegm(t) + TokenLifetime, key |-> SECRET_KEY, issued_at |-> t ]

\* jwt.decode that still takes a token at the very instant of its exp
JwtDecodeLate(tok, t) ==
  IF tok.key # SECRET_KEY THEN "InvalidTokenError"
  ELSE IF tok.exp * TicksPerSec < t THEN "ExpiredSignatureError"
  ELSE "ok"

\* jwt.decode(token, SECRET_KEY, algorithms=['HS256']) at clock t: the signature
\* first, then exp (PyJWT 2: expired when exp <= now, now a float of seconds)
JwtDecode(tok, t) ==
  IF tok.key # SECRET_KEY THEN "InvalidTokenError"
  ELSE IF tok.exp * TicksPerSec <= t THEN "ExpiredSignatureError"
  ELSE "ok"

(***************************************************************************)
(* The Authorization header: a string made of spaces, words and tokens.    *)
(***************************************************************************)
Sp == [ k |-> "sp" ]
Word(w) == [ k |-> "word", w |-> w ]
Jwt(tok) == [ k |-> "jwt", tok |-> tok ]
NoHeader == [ present |-> FALSE, value |-> << >> ]
Header(v) == [ present |-> TRUE, value |-> v ]

\* str.split(" ")
RECURSIVE Split(_)
Split(s) ==
  IF \E i \in DOMAIN s : s[i] = Sp
  THEN LET i == CHOOSE i \in DOMAIN s : s[i] = Sp /\ \A j \in 1 .. (i - 1) : s[j] # Sp
       IN  << SubSeq(s, 1, i - 1) >> \o Split(SubSeq(s, i + 1, Len(s)))
  ELSE << s >>

\* jwt.decode on the header's second segment: only a segment that is exactly
\* one token decodes at all
DecodeSegment(token, t) ==
  IF Len(token) = 1 /\ token[1].k = "jwt" THEN JwtDecode(token[1].tok, t)
  ELSE "InvalidTokenError"

\* str(ObjectId) and ObjectId(str): the id as its 24 hex digits, and back;
\* ObjectId() of anything else raises InvalidId
Str(oid) == [ hex |-> oid ]
IsObjectIdStr(s) == DOMAIN s = { "hex" }
ObjectId(s) == s.hex

(***************************************************************************)
(* The users collection.                                                  *)
(***************************************************************************)
\* find_one with the filter left out: any user record answers
FindAnyUser(id) == IF users = {} THEN {} ELSE { CHOOSE u \in users : TRUE }

\* users_collection.find_one({'_id': ObjectId(id)}): the set of matches
FindUserById(id) == { u \in users : u._id = id }

\* users_collection.find_one({'email': email})
FindUserByEmail(email) == { u \in users : u.email = email }

\* generate_password_hash / check_password_hash
PasswordHash(password) == [ hash_of |-> password ]
CheckPasswordHash(hash, password) == hash = PasswordHash(password)

\* the unique index on email (create_index("email", unique=True)), where
\* init_database got it made: insert_one raises DuplicateKeyError when the
\* email is taken
DuplicateKey(doc) == unique_email /\ \E u \in users : u.email = doc.email

\* user.get('name', user.get('fullName', ''))
DisplayName(user) ==
  IF "name" \in DOMAIN user THEN user.name
  ELSE IF "fullName" \in DOMAIN user THEN user.fullName
  ELSE << >>

(***************************************************************************)
(* auth_middleware: the outcome of the gate for a header, at the current   *)
(* clock and users; lookup is "ok" or "error" (find_one raises).           *)
(***************************************************************************)
GateFail(status, error) ==
  [ pass |-> FALSE, status |-> status, error |-> error, current_user |-> << >> ]

GatePass(user) ==
  [ pass |-> TRUE, status |-> 200, error |-> "", current_user |-> user ]

\* lines 94-105: decode, look the subject up, and the except clauses
VerifyAndResolve(token, lookup) ==
  LET decoded == DecodeSegment(token, now)
  IN  IF decoded = "ExpiredSignatureError" THEN GateFail(401, "Token has expired")
      ELSE IF decoded = "InvalidTokenError" THEN GateFail(401, "Token is invalid")
      ELSE IF lookup = "error" THEN GateFail(401, "Token validation failed")
      ELSE LET found == FindUserById(ObjectId(token[1].tok.user_id))
           IN  IF found = { } THEN GateFail(401, "User not found")
               ELSE GatePass(CHOOSE u \in found : TRUE)

\* lines 82-92: the token is the second segment of the header
ExtractToken(header) ==
  IF header.present /\ header.value # << >>
  THEN LET segs == Split(header.value)
       IN  IF Len(segs) < 2 THEN [ ok |-> FALSE, token |-> << >> ]
           ELSE [ ok |-> TRUE, token |-> segs[2] ]
  ELSE [ ok |-> TRUE, token |-> << >> ]

auth_middleware(header, lookup) ==
  IF ~ connected THEN GateFail(503, "Database unavailable")
  ELSE LET x == ExtractToken(header)
       IN  IF ~ x.ok THEN GateFail(401, "Invalid token format")
           ELSE IF x.token = << >> THEN GateFail(401, "Token is missing")
           ELSE VerifyAndResolve(x.token, lookup)

(***************************************************************************)
(* Requests and responses.                                                 *)
(***************************************************************************)
NoArg == [ none |-> TRUE ]

\* a request as the step that receives it sees it: the Authorization header
\* (NoHeader on an endpoint without the gate), the outcome of the step's read of
\* the users collection ("ok", or "error" when find_one raises), the path
\* argument and the JSON body
Req(ep, header, lookup, arg, data) ==
  [ ep |-> ep, first |-> TRUE, header |-> header, lookup |-> lookup, arg |-> arg,
    data |-> data ]

\* the request a later step of a handler goes on with
Cont(ep, arg, data) ==
  [ ep |-> ep, first |-> FALSE, header |-> NoHeader, lookup |-> "ok", arg |-> arg,
    data |-> data ]

\* jsonify(...), status: the response, kept with the request it answers;
\* executed says whether the handler's own code ran
Reply(req, status, error, errors, body, executed) ==
  req @@ [ status |-> status, error |-> error, errors |-> errors, body |-> body,
           executed |-> executed ]

NoResponse == Reply(Cont("none", NoArg, << >>), 0, "", << >>, << >>, FALSE)

\* a handler of several store operations got through the gate and its first
\* store operation, and has not answered yet: status 0
Started(req) == Reply(req, 0, "", << >>, << >>, TRUE)

\* what a request that fails in the gate is answered
GateReply(req, g) == Reply(req, g.status, g.error, << >>, << >>, FALSE)

\* the client holds one token: the one it is sent, or the one it had
Keep(tok) == { tokens, { tok } }

\* the email trimmed, its case kept
TrimEmail(data) == Strip(data.email)

\* data['email'].strip().lower()
NormEmail(data) == Lower(Strip(data.email))

(***************************************************************************)
(* POST /api/auth/register: register_jwt, in two store operations.         *)
(***************************************************************************)
Inserting == { w \in Workers : pending[w].pc = "insert" }

\* lines 176-199: up to find_one; find is "ok" or "error" (find_one raises)
RegisterJwtFind(w, data, find) ==
  /\ pending[w] = Idle
  /\ nextOid + Cardinality(Inserting) <= MaxUsers
  /\ LET answer(status, error, errors) ==
           /\ last' = Reply(Req("register_jwt", NoHeader, find, NoArg, data), status, error,
                            errors, << >>, TRUE)
           /\ UNCHANGED pending
         validation_errors == validate_auth_data(data, FALSE)
     IN  IF ~ connected THEN answer(503, "Service temporarily unavailable", << >>)
         ELSE IF data = << >> THEN answer(400, "No data provided", << >>)
         ELSE IF validation_errors # << >>
              THEN answer(400, "Validation failed", validation_errors)
         ELSE IF find = "error" THEN answer(500, "Internal server error", << >>)
         ELSE IF FindUserByEmail(NormEmail(data)) # { }
              THEN answer(400, "Validation failed",
                          [ email |-> "Email already registered" ])
         ELSE /\ pending' = [ pending EXCEPT ![w] =
                                [ pc |-> "insert", ep |-> "register_jwt", data |-> data ] ]
              /\ last' = NoResponse
  /\ UNCHANGED << connected, unique_email, users, products, now, nextOid, nextUuid, tokens >>

\* lines 201-236: insert_one, the token and the response
RegisterJwtInsert(w) ==
  /\ pending[w].pc = "insert"
  /\ pending[w].ep = "register_jwt"
  /\ LET data == pending[w].data
         user_data == [ name |-> Strip(data.name), email |-> NormEmail(data),
                        password |-> PasswordHash(data.password) ]
         user_id == Str(nextOid)
         token == JwtEncode(user_id, user_data.email, now)
     IN  IF DuplicateKey(user_data)
         THEN /\ last' = Reply(Cont("register_jwt", NoArg, data), 500,
                               "Internal server error", << >>, << >>, TRUE)
              /\ UNCHANGED << users, nextOid, tokens >>
         ELSE /\ users' = users \cup { [ _id |-> nextOid ] @@ user_data }
              /\ nextOid' = nextOid + 1
              /\ tokens' \in Keep(token)
              /\ last' = Reply(Cont("register_jwt", NoArg, data), 201, "", << >>,
                               [ token |-> token,
                                 user |-> [ id |-> user_id, name |-> user_data.name,
                                            email |-> user_data.email ] ], TRUE)
  /\ pending' = [ pending EXCEPT ![w] = Idle ]
  /\ UNCHANGED << connected, unique_email, products, now, nextUuid >>

(***************************************************************************)
(* POST /api/auth/login: login_jwt.                                        *)
(***************************************************************************)
LoginJwt(data, find) ==
  /\ LET answer(status, error, errors, body) ==
           last' = Reply(Req("login_jwt", NoHeader, find, NoArg, data), status, error, errors,
                         body, TRUE)
         validation_errors == validate_auth_data(data, TRUE)
         found == FindUserByEmail(NormEmail(data))
         user == CHOOSE u \in found : TRUE
         token == JwtEncode(Str(user._id), user.email, now)
     IN  IF ~ connected
         THEN answer(503, "Service temporarily unavailable", << >>, << >>)
              /\ UNCHANGED tokens
         ELSE IF data = << >>
         THEN answer(400, "No data provided", << >>, << >>) /\ UNCHANGED tokens
         ELSE IF validation_errors # << >>
         THEN answer(400, "Validation failed", validation_errors, << >>)
              /\ UNCHANGED tokens
         ELSE IF find = "error"
         THEN answer(500, "Internal server error", << >>, << >>) /\ UNCHANGED tokens
         ELSE IF found = { } \/ ~ CheckPasswordHash(user.password, data.password)
         THEN answer(401, "Invalid email or password", << >>, << >>)
              /\ UNCHANGED tokens
         ELSE /\ answer(200, "", << >>,
                        [ token |-> token,
                          user |-> [ id |-> Str(user._id), name |-> DisplayName(user),
                                     email |-> user.email ] ])
              /\ tokens' \in Keep(token)
  /\ UNCHANGED << connected, unique_email, users, products, now, nextOid, nextUuid, pending >>

(***************************************************************************)
(* GET /api/auth/verify: verify_token behind auth_middleware.              *)
(***************************************************************************)
VerifyToken(header, lookup) ==
  /\ LET g == auth_middleware(header, lookup)
         current_user == g.current_user
     IN  IF ~ g.pass THEN last' = GateReply(Req("verify_token", header, lookup, NoArg, << >>), g)
         ELSE last' = Reply(Req("verify_token", header, lookup, NoArg, << >>), 200, "", << >>,
                            [ user |-> [ id |-> Str(current_user._id),
                                         name |-> DisplayName(current_user),
                                         email |-> current_user.email ] ], TRUE)
  /\ UNCHANGED << connected, unique_email, users, products, now, nextOid, nextUuid, tokens, pending >>

(***************************************************************************)
(* float(): a JSON number is a decimal m / 10^d; a string is parsed, after *)
(* strip(), as a signed decimal, "nan", "inf" or "infinity" (any case);    *)
(* anything else raises ValueError, and None raises TypeError.  Exponents  *)
(* and digit-group underscores are not parsed: no input here has them.     *)
(***************************************************************************)
Num(m, d) == [ t |-> "num", m |-> m, d |-> d ]
StrVal(s) == [ t |-> "str", s |-> s ]
Null == [ t |-> "null" ]

DigitSeq == << "0","1","2","3","4","5","6","7","8","9" >>
DigitVal(c) == (CHOOSE i \in DOMAIN DigitSeq : DigitSeq[i] = c) - 1

RECURSIVE IntOf(_)
IntOf(s) == IF s = << >> THEN 0 ELSE 10 * IntOf(SubSeq(s, 1, Len(s) - 1)) + DigitVal(s[Len(s)])

Raises == [ ok |-> FALSE, kind |-> "raises", m |-> 0, d |-> 0 ]
Fin(m, d) == [ ok |-> TRUE, kind |-> "fin", m |-> m, d |-> d ]
NaN == [ ok |-> TRUE, kind |-> "nan", m |-> 0, d |-> 0 ]
Inf(sign) == [ ok |-> TRUE, kind |-> "inf", m |-> sign, d |-> 0 ]

ParseFloat(str) ==
  LET s == Lower(Strip(str))
      signed == s # << >> /\ Head(s) \in { "+", "-" }
      sign == IF signed /\ Head(s) = "-" THEN -1 ELSE 1
      body == IF signed THEN Tail(s) ELSE s
      dots == { i \in DOMAIN body : body[i] = "." }
      dot == IF dots = { } THEN Len(body) + 1 ELSE CHOOSE i \in dots : TRUE
      int == SubSeq(body, 1, dot - 1)
      frac == SubSeq(body, dot + 1, Len(body))
  IN  IF body = << "n", "a", "n" >> THEN NaN
      ELSE IF body \in { << "i", "n", "f" >>, << "i", "n", "f", "i", "n", "i", "t", "y" >> }
           THEN Inf(sign)
      ELSE IF /\ Cardinality(dots) <= 1
              /\ int \o frac # << >>
              /\ \A i \in DOMAIN body : i \in dots \/ body[i] \in DigitChars
           THEN Fin(sign * IntOf(int \o frac), Len(frac))
      ELSE Raises

Float(raw) ==
  IF raw.t = "num" THEN Fin(raw.m, raw.d)
  ELSE IF raw.t = "str" THEN ParseFloat(raw.s)
  ELSE Raises

\* x <= 0 on floats: False for nan
LeqZero(x) == (x.kind = "fin" /\ x.m <= 0) \/ (x.kind = "inf" /\ x.m < 0)

\* not value, for a JSON value: None, '', 0 and 0.0 are falsy
Falsy(raw) ==
  \/ raw.t = "null"
  \/ raw.t = "str" /\ raw.s = << >>
  \/ raw.t = "num" /\ raw.m = 0

(***************************************************************************)
(* The products collection.                                                *)
(***************************************************************************)
\* products_collection.find_one({'id': product_id}): the set of matches
FindProduct(product_id) == { p \in products : p.id = product_id }

\* update_one({'id': product_id}, {'$set': update_data})
SetFields(product_id, update_data) ==
  { IF p.id = product_id THEN update_data @@ p ELSE p : p \in products }

\* delete_one({'id': product_id})
DeleteProductDoc(product_id) == { p \in products : p.id # product_id }

\* lines 385-397: the errors of a create body
ProductErrors(data) ==
  LET missing(f) == f \notin DOMAIN data
                    \/ (IF f = "price" THEN Falsy(data[f]) ELSE data[f] = << >>)
      price == Float(IF "price" \in DOMAIN data THEN data.price ELSE Num(0, 0))
      msg(f) == IF f = "price" /\ ~ price.ok THEN "Price must be a valid number"
                ELSE IF f = "price" /\ LeqZero(price) THEN "Price must be a positive number"
                ELSE IF missing(f)
                THEN CASE f = "title" -> "Title is required"
                       [] f = "description" -> "Description is required"
                       [] f = "price" -> "Price is required"
                ELSE ""
  IN  ErrorsOf([ f \in { "title", "description", "price" } |-> msg(f) ])

\* lines 478-493: update_data of an update body, or the 400 it ends in
UpdateData(data) ==
  LET price == Float(data.price)
      strs == [ f \in DOMAIN data \cap { "title", "description" } |-> Strip(data[f]) ]
  IN  IF "price" \notin DOMAIN data THEN [ error |-> "", set |-> strs ]
      ELSE IF ~ price.ok THEN [ error |-> "Invalid price", set |-> << >> ]
      ELSE IF LeqZero(price) THEN [ error |-> "Price must be positive", set |-> << >> ]
      ELSE [ error |-> "", set |-> [ price |-> price ] @@ strs ]

(***************************************************************************)
(* GET /api/products, POST /api/products, GET /api/products/<id>.          *)
(***************************************************************************)
\* cursor.sort([('createdAt', -1)]): the newest first; ids are handed out in
\* the order of creation
RECURSIVE SortNewestFirst(_)
SortNewestFirst(docs) ==
  IF docs = { } THEN << >>
  ELSE LET newest == CHOOSE p \in docs : \A q \in docs : q.id <= p.id
       IN  << newest >> \o SortNewestFirst(docs \ { newest })

\* cursor.skip(n) and cursor.limit(n), n >= 1
Skip(cursor, n) == IF n >= Len(cursor) THEN << >> ELSE SubSeq(cursor, n + 1, Len(cursor))
Limit(cursor, n) == IF Len(cursor) <= n THEN cursor ELSE SubSeq(cursor, 1, n)

\* total_pages = total_count // limit, the division rounding down
FloorPages(total_count, limit) == total_count \div limit

\* line 346: total_pages
TotalPages(total_count, limit) == (total_count + limit - 1) \div limit

\* lines 305-363, for int page and limit, no keyword, the default sort
GetProducts(header, lookup, page_arg, limit_arg) ==
  /\ LET g == auth_middleware(header, lookup)
         arg == [ page |-> page_arg, limit |-> limit_arg ]
         page == IF page_arg < 1 THEN 1 ELSE page_arg
         limit == IF limit_arg < 1 \/ limit_arg > 100 THEN 10 ELSE limit_arg
         skip == (page - 1) * limit
         cursor == Limit(Skip(SortNewestFirst(products), skip), limit)
         total_count == Cardinality(products)
         total_pages == TotalPages(total_count, limit)
     IN  IF ~ g.pass THEN last' = GateReply(Req("get_products", header, lookup, arg, << >>), g)
         ELSE last' = Reply(Req("get_products", header, lookup, arg, << >>), 200, "", << >>,
                            [ products |-> cursor,
                              currentPage |-> page, totalPages |-> total_pages,
                              totalItems |-> total_count, itemsPerPage |-> limit,
                              hasNext |-> page < total_pages, hasPrev |-> page > 1 ],
                            TRUE)
  /\ UNCHANGED << connected, unique_email, users, products, now, nextOid, nextUuid, tokens, pending >>

CreateProduct(header, lookup, data) ==
  /\ nextUuid <= MaxProducts
  /\ LET g == auth_middleware(header, lookup)
         errors == ProductErrors(data)
         answer(status, error, errs, body) ==
           last' = Reply(Req("create_product", header, lookup, NoArg, data), status, error, errs,
                         body, TRUE)
         product_data == [ id |-> nextUuid, title |-> Strip(data.title),
                           description |-> Strip(data.description),
                           price |-> Float(data.price),
                           createdBy |-> Str(g.current_user._id) ]
     IN  IF ~ g.pass
         THEN /\ last' = GateReply(Req("create_product", header, lookup, NoArg, data), g)
              /\ UNCHANGED << products, nextUuid >>
         ELSE IF data = << >>
         THEN answer(400, "No data provided", << >>, << >>)
              /\ UNCHANGED << products, nextUuid >>
         ELSE IF errors # << >>
         THEN answer(400, "Validation failed", errors, << >>)
              /\ UNCHANGED << products, nextUuid >>
         ELSE /\ products' = products \cup { product_data }
              /\ nextUuid' = nextUuid + 1
              /\ answer(201, "", << >>, [ product |-> product_data ])
  /\ UNCHANGED << connected, unique_email, users, now, nextOid, tokens, pending >>

GetProduct(header, lookup, product_id) ==
  /\ LET g == auth_middleware(header, lookup)
         found == FindProduct(product_id)
         arg == [ id |-> product_id ]
     IN  IF ~ g.pass THEN last' = GateReply(Req("get_product", header, lookup, arg, << >>), g)
         ELSE IF found = { }
         THEN last' = Reply(Req("get_product", header, lookup, arg, << >>), 404, "Product not found",
                            << >>, << >>, TRUE)
         ELSE last' = Reply(Req("get_product", header, lookup, arg, << >>), 200, "", << >>,
                            [ product |-> CHOOSE p \in found : TRUE ], TRUE)
  /\ UNCHANGED << connected, unique_email, users, products, now, nextOid, nextUuid, tokens, pending >>

(***************************************************************************)
(* PUT /api/products/<id>: update_product, in three store operations.      *)
(***************************************************************************)
\* lines 462-493: the gate, find_one and update_data
UpdateFind(w, header, lookup, product_id, data) ==
  /\ pending[w] = Idle
  /\ LET g == auth_middleware(header, lookup)
         arg == [ id |-> product_id ]
         u == UpdateData(data)
         answer(status, error) ==
           /\ last' = Reply(Req("update_product", header, lookup, arg, data), status, error, << >>,
                            << >>, TRUE)
           /\ UNCHANGED pending
     IN  IF ~ g.pass
         THEN /\ last' = GateReply(Req("update_product", header, lookup, arg, data), g)
              /\ UNCHANGED pending
         ELSE IF data = << >> THEN answer(400, "No data provided")
         ELSE IF FindProduct(product_id) = { } THEN answer(404, "Product not found")
         ELSE IF u.error # "" THEN answer(400, u.error)
         ELSE /\ pending' = [ pending EXCEPT ![w] =
                                [ pc |-> "update_one", ep |-> "update_product",
                                  arg |-> arg, data |-> data, update_data |-> u.set ] ]
              /\ last' = Started(Req("update_product", header, lookup, arg, data))
  /\ UNCHANGED << connected, unique_email, users, products, now, nextOid, nextUuid, tokens >>

\* line 495: update_one
UpdateWrite(w) ==
  /\ pending[w].pc = "update_one"
  /\ products' = SetFields(pending[w].arg.id, pending[w].update_data)
  /\ pending' = [ pending EXCEPT ![w].pc = "find_one" ]
  /\ last' = NoResponse
  /\ UNCHANGED << connected, unique_email, users, now, nextOid, nextUuid, tokens >>

\* lines 497-514: find_one again; updated_product['_id'] of None raises
UpdateReread(w) ==
  /\ pending[w].pc = "find_one"
  /\ LET r == pending[w]
         found == FindProduct(r.arg.id)
     IN  IF found = { }
         THEN last' = Reply(Cont("update_product", r.arg, r.data), 500,
                            "Internal server error", << >>, << >>, TRUE)
         ELSE last' = Reply(Cont("update_product", r.arg, r.data), 200, "", << >>,
                            [ product |-> CHOOSE p \in found : TRUE ], TRUE)
  /\ pending' = [ pending EXCEPT ![w] = Idle ]
  /\ UNCHANGED << connected, unique_email, users, products, now, nextOid, nextUuid, tokens >>

(***************************************************************************)
(* DELETE /api/products/<id>: delete_product, in two store operations.     *)
(***************************************************************************)
\* lines 518-527: the gate and find_one
DeleteFind(w, header, lookup, product_id) ==
  /\ pending[w] = Idle
  /\ LET g == auth_middleware(header, lookup)
         arg == [ id |-> product_id ]
         found == FindProduct(product_id)
     IN  IF ~ g.pass
         THEN /\ last' = GateReply(Req("delete_product", header, lookup, arg, << >>), g)
              /\ UNCHANGED pending
         ELSE IF found = { }
         THEN /\ last' = Reply(Req("delete_product", header, lookup, arg, << >>), 404,
                               "Product not found", << >>, << >>, TRUE)
              /\ UNCHANGED pending
         ELSE /\ pending' = [ pending EXCEPT ![w] =
                                [ pc |-> "delete_one", ep |-> "delete_product",
                                  arg |-> arg, product |-> CHOOSE p \in found : TRUE ] ]
              /\ last' = Started(Req("delete_product", header, lookup, arg, << >>))
  /\ UNCHANGED << connected, unique_email, users, products, now, nextOid, nextUuid, tokens >>

\* lines 529-537: delete_one and the response
DeleteWrite(w) ==
  /\ pending[w].pc = "delete_one"
  /\ LET r == pending[w]
     IN  /\ products' = DeleteProductDoc(r.arg.id)
         /\ last' = Reply(Cont("delete_product", r.arg, << >>), 200, "", << >>,
                          [ deletedProduct |-> [ id |-> r.product.id,
                                                 title |-> r.product.title ] ], TRUE)
  /\ pending' = [ pending EXCEPT ![w] = Idle ]
  /\ UNCHANGED << connected, unique_email, users, now, nextOid, nextUuid, tokens >>

(***************************************************************************)
(* POST /api/register: register_user, in two store operations.             *)
(***************************************************************************)
\* lines 547-570: up to find_one
RegisterUserFind(w, data, find) ==
  /\ pending[w] = Idle
  /\ nextOid + Cardinality(Inserting) <= MaxUsers
  /\ LET answer(status, error, errors) ==
           /\ last' = Reply(Req("register_user", NoHeader, find, NoArg, data), status, error,
                            errors, << >>, TRUE)
           /\ UNCHANGED pending
         validation_errors == validate_registration_data(data)
     IN  IF ~ connected THEN answer(503, "Service temporarily unavailable", << >>)
         ELSE IF data = << >> THEN answer(400, "No data provided", << >>)
         ELSE IF validation_errors # << >>
              THEN answer(400, "Validation failed", validation_errors)
         ELSE IF find = "error" THEN answer(500, "Internal server error", << >>)
         ELSE IF FindUserByEmail(NormEmail(data)) # { }
              THEN answer(400, "Validation failed",
                          [ email |-> "Email already registered" ])
         ELSE /\ pending' = [ pending EXCEPT ![w] =
                                [ pc |-> "insert", ep |-> "register_user", data |-> data ] ]
              /\ last' = NoResponse
  /\ UNCHANGED << connected, unique_email, users, products, now, nextOid, nextUuid, tokens >>

\* lines 572-601: insert_one and the response
RegisterUserInsert(w) ==
  /\ pending[w].pc = "insert"
  /\ pending[w].ep = "register_user"
  /\ LET data == pending[w].data
         user_data == [ fullName |-> Strip(data.fullName), email |-> NormEmail(data),
                        phone |-> DigitsOf(Strip(data.phone)),
                        password |-> PasswordHash(data.password) ]
     IN  IF DuplicateKey(user_data)
         THEN /\ last' = Reply(Cont("register_user", NoArg, data), 500,
                               "Internal server error", << >>, << >>, TRUE)
              /\ UNCHANGED << users, nextOid >>
         ELSE /\ users' = users \cup { [ _id |-> nextOid ] @@ user_data }
              /\ nextOid' = nextOid + 1
              /\ last' = Reply(Cont("register_user", NoArg, data), 201, "", << >>,
                               [ user |-> [ id |-> Str(nextOid),
                                            fullName |-> user_data.fullName,
                                            email |-> user_data.email,
                                            phone |-> user_data.phone ] ], TRUE)
  /\ pending' = [ pending EXCEPT ![w] = Idle ]
  /\ UNCHANGED << connected, unique_email, products, now, nextUuid, tokens >>

(***************************************************************************)
(* POST /api/login, GET /api/users, GET /api/users/<id>.                   *)
(***************************************************************************)
LoginUser(data, find) ==
  /\ LET answer(status, error, body) ==
           last' = Reply(Req("login_user", NoHeader, find, NoArg, data), status, error, << >>,
                         body, TRUE)
         found == FindUserByEmail(NormEmail(data))
         user == CHOOSE u \in found : TRUE
     IN  IF ~ connected THEN answer(503, "Service temporarily unavailable", << >>)
         ELSE IF data = << >> \/ Get(data, "email") = << >> \/ Get(data, "password") = << >>
         THEN answer(400, "Email and password are required", << >>)
         ELSE IF find = "error" THEN answer(500, "Internal server error", << >>)
         ELSE IF found = { } \/ ~ CheckPasswordHash(user.password, data.password)
         THEN answer(401, "Invalid email or password", << >>)
         ELSE answer(200, "",
                     [ user |-> [ id |-> Str(user._id),
                                  fullName |-> IF "fullName" \in DOMAIN user
                                               THEN user.fullName
                                               ELSE Get(user, "name"),
                                  email |-> user.email,
                                  phone |-> Get(user, "phone") ] ])
  /\ UNCHANGED << connected, unique_email, users, products, now, nextOid, nextUuid, tokens, pending >>

\* find(...) without the projection: every field of the record
WholeRecord(user) ==
  [ f \in DOMAIN user |-> IF f = "_id" THEN Str(user._id) ELSE user[f] ]

\* find(..., {'password': 0}) and user['_id'] = str(user['_id'])
WithoutPassword(user) ==
  [ f \in DOMAIN user \ { "password" } |-> IF f = "_id" THEN Str(user._id) ELSE user[f] ]

GetAllUsers(find) ==
  /\ LET answer(status, error, body) ==
           last' = Reply(Req("get_all_users", NoHeader, find, NoArg, << >>), status, error, << >>,
                         body, TRUE)
     IN  IF ~ connected THEN answer(503, "Service temporarily unavailable", << >>)
         ELSE IF find = "error" THEN answer(500, "Internal server error", << >>)
         ELSE answer(200, "", [ users |-> { WithoutPassword(u) : u \in users },
                                count |-> Cardinality(users) ])
  /\ UNCHANGED << connected, unique_email, users, products, now, nextOid, nextUuid, tokens, pending >>

GetUser(user_id, find) ==
  /\ LET arg == [ id |-> user_id ]
         answer(status, error, body) ==
           last' = Reply(Req("get_user", NoHeader, find, arg, << >>), status, error, << >>, body,
                         TRUE)
         found == FindUserById(ObjectId(user_id))
     IN  IF ~ connected THEN answer(503, "Service temporarily unavailable", << >>)
         ELSE IF ~ IsObjectIdStr(user_id) \/ find = "error"
         THEN answer(500, "Internal server error", << >>)
         ELSE IF found = { } THEN answer(404, "User not found", << >>)
         ELSE answer(200, "", [ user |-> WithoutPassword(CHOOSE u \in found : TRUE) ])
  /\ UNCHANGED << connected, unique_email, users, products, now, nextOid, nextUuid, tokens, pending >>

(***************************************************************************)
(* What the service does not do itself: time passes, a user record is      *)
(* removed from the shared store.                                          *)
(***************************************************************************)
Advance(t) ==
  /\ t \in Instants
  /\ t > now
  /\ now' = t
  /\ last' = NoResponse
  /\ UNCHANGED << connected, unique_email, users, products, nextOid, nextUuid, tokens, pending >>

RemoveUser(u) ==
  /\ u \in users
  /\ users' = users \ { u }
  /\ last' = NoResponse
  /\ UNCHANGED << connected, unique_email, products, now, nextOid, nextUuid, tokens, pending >>

(***************************************************************************)
(* The requests the clients send.                                          *)
(***************************************************************************)
\* a token whose payload was changed, so that its signature no longer fits
Tampered(tok) == [ tok EXCEPT !.exp = tok.exp + TokenLifetime, !.key = "other" ]

Presentable == tokens \cup { Tampered(tok) : tok \in tokens }

\* Authorization: "Bearer", "Bearer ", and for each token "Bearer <token>",
\* "<token>" and "Basic <token>"
HeaderValues ==
  { << Word("Bearer") >>, << Word("Bearer"), Sp >> }
  \cup UNION { { << Word("Bearer"), Sp, Jwt(tok) >>, << Jwt(tok) >>,
                 << Word("Basic"), Sp, Jwt(tok) >> } : tok \in Presentable }

Headers == { NoHeader } \cup { Header(v) : v \in HeaderValues }

\* no header, and the well-formed headers of the tokens held and of their
\* tampered copies
PlainHeaders ==
  { NoHeader } \cup { Header(<< Word("Bearer"), Sp, Jwt(tok) >>) : tok \in Presentable }

\* the well-formed headers of the tokens held
BearerHeaders == { Header(<< Word("Bearer"), Sp, Jwt(tok) >>) : tok \in tokens }

StoreOutcomes == { "ok", "error" }

\* the gate calls find_one, which may raise, only once the token has decoded
Lookups(header) ==
  LET x == ExtractToken(header)
  IN  IF connected /\ x.ok /\ x.token # << >> /\ DecodeSegment(x.token, now) = "ok"
      THEN StoreOutcomes
      ELSE { "ok" }

S_u == << "u", "@", "x", ".", "c", "o" >>
S_U == << " ", "U", "@", "X", ".", "c", "o" >>
S_v == << "v", "@", "x", ".", "c", "o" >>
S_Al == << "A", "l" >>
S_secret == << "s", "e", "c", "r", "e", "t" >>
S_abc == << "a", "b", "c" >>
S_phone == << "1","2","3","-","4","5","6","-","7","8","9","0" >>
S_nan == << "n", "a", "n" >>

AliceJwt == [ name |-> S_Al, email |-> S_u, password |-> S_secret ]
AliceLogin == [ email |-> S_U, password |-> S_secret ]
Widget == [ title |-> << "w" >>, description |-> << "d" >>, price |-> Num(999, 2) ]
Reprice == [ price |-> Num(5, 0) ]

\* init_database: the collections or None; with the collections, the unique
\* index on email, or the warning that it could not be made
Init ==
  /\ connected \in BOOLEAN
  /\ unique_email \in (IF connected THEN BOOLEAN ELSE { FALSE })
  /\ users = { }
  /\ products = { }
  /\ now = 0
  /\ nextOid = 1
  /\ nextUuid = 1
  /\ tokens = { }
  /\ pending = [ w \in Workers |-> Idle ]
  /\ last = NoResponse

\* the starts in which the index was made: where one worker registers, or none,
\* no insert meets the index and the other starts add nothing
InitIndexed == Init /\ unique_email = connected

(***************************************************************************)
(* Spec: the auth gate in front of its six endpoints, with tokens issued   *)
(* by register and login, the clock, and user records that go away.        *)
(***************************************************************************)
Next ==
  \/ RegisterJwtFind("w1", AliceJwt, "ok")
  \/ RegisterJwtInsert("w1")
  \/ LoginJwt(AliceLogin, "ok")
  \/ \E header \in Headers : \E lookup \in Lookups(header) : VerifyToken(header, lookup)
  \/ \E header \in PlainHeaders : GetProducts(header, "ok", 1, 10)
  \/ \E header \in PlainHeaders : CreateProduct(header, "ok", Widget)
  \/ \E header \in PlainHeaders : GetProduct(header, "ok", 1)
  \/ \E header \in PlainHeaders : UpdateFind("w1", header, "ok", 1, Reprice)
  \/ UpdateWrite("w1")
  \/ UpdateReread("w1")
  \/ \E header \in PlainHeaders : DeleteFind("w1", header, "ok", 1)
  \/ DeleteWrite("w1")
  \/ \E t \in Instants : Advance(t)
  \/ \E u \in users : RemoveUser(u)

Spec == InitIndexed /\ [][Next]_vars
(***************************************************************************)
(* What the statements below say of a request and its answer.              *)
(***************************************************************************)
GatedEndpoints ==
  { "verify_token", "get_products", "create_product", "get_product",
    "update_product", "delete_product" }

\* the step that led here ran auth_middleware on last.header
GateRan == last.first /\ last.ep \in GatedEndpoints

\* the tokens a header holds, wherever they stand in it
Carried(header) ==
  { header.value[i].tok : i \in { j \in DOMAIN header.value : header.value[j].k = "jwt" } }

\* Authorization: Bearer <tok>
Bearer(tok) == Header(<< Word("Bearer"), Sp, Jwt(tok) >>)

Signed(tok) == tok.key = SECRET_KEY
SubjectPresent(tok) == \E u \in users : Str(u._id) = tok.user_id
\* expired as section 4.2 of the specification has it: now > expiresAt
NotExpired(tok) == now <= tok.exp * TicksPerSec
\* the instant a token made at issued_at expires at: issued_at in whole
\* seconds, plus 24 hours
Expiry(tok) == ((tok.issued_at \div TicksPerSec) + TokenLifetime) * TicksPerSec

Rejected(error) == last.status = 401 /\ last.error = error /\ ~ last.executed

(***************************************************************************)
(* C1.  The wrapped operation runs only for a request that carries a token *)
(* signed with the secret, not expired, whose subject is a user in the     *)
(* store.                                                                  *)
(***************************************************************************)
C1_OnlyValid ==
  GateRan /\ last.executed =>
    \E tok \in Carried(last.header) :
      Signed(tok) /\ NotExpired(tok) /\ SubjectPresent(tok)

\* C1 as claimed: moreover every token issued to a user whose record has been
\* removed is rejected with 401 'User not found', the operation not executed
\* (stated here for the requests whose lookup of the subject succeeds).
C1_Claimed ==
  /\ C1_OnlyValid
  /\ \A tok \in tokens :
       GateRan /\ last.header = Bearer(tok) /\ ~ SubjectPresent(tok)
               /\ last.lookup = "ok"
         => Rejected("User not found")

\* C1 as amended: the wrapped operation runs only for a signed, unexpired token
\* of a present user; a token issued to a user whose record has been removed
\* never runs the operation, and is rejected with 401 'Token has expired' once
\* it has expired and with 401 'User not found' while it has not and the lookup
\* itself succeeds.
C1_Gate ==
  /\ C1_OnlyValid
  /\ \A tok \in tokens :
       GateRan /\ last.header = Bearer(tok) /\ ~ SubjectPresent(tok)
         => /\ ~ last.executed
            /\ now >= Expiry(tok) => Rejected("Token has expired")
            /\ now < Expiry(tok) /\ last.lookup = "ok" => Rejected("User not found")

\* a token of a removed user has just been answered 'User not found'
C1_Witness ==
  \E tok \in tokens :
    /\ GateRan
    /\ last.header = Bearer(tok)
    /\ ~ SubjectPresent(tok)
    /\ Rejected("User not found")

(***************************************************************************)
(* C2.  A header that is present and is not 'Bearer <token>' is answered   *)
(* 401 'Invalid token format' and never runs the wrapped operation.        *)
(***************************************************************************)
BearerForm(header) ==
  LET v == header.value
  IN  Len(v) = 3 /\ v[1] = Word("Bearer") /\ v[2] = Sp /\ v[3] # Sp

C2_Claimed ==
  GateRan /\ connected /\ last.header.present /\ ~ BearerForm(last.header)
    => Rejected("Invalid token format")

(***************************************************************************)
(* C3.  With the store available, a gated endpoint answers 401 to an       *)
(* absent header, a header without the 'Bearer ' prefix, a tampered token, *)
(* an expired token and the token of a deleted user, with a message of its *)
(* own for each of the five.                                               *)
(***************************************************************************)
GateCase(header) ==
  LET v == header.value
      tok == v[3].tok
  IN  IF ~ header.present THEN "absent"
      ELSE IF ~ (Len(v) >= 2 /\ v[1] = Word("Bearer") /\ v[2] = Sp) THEN "no_bearer"
      ELSE IF ~ (BearerForm(header) /\ v[3].k = "jwt") THEN "other"
      ELSE IF ~ Signed(tok) THEN "tampered"
      ELSE IF now > tok.exp * TicksPerSec THEN "expired"
      ELSE IF now = tok.exp * TicksPerSec THEN "other"
      ELSE IF ~ SubjectPresent(tok) THEN "deleted"
      ELSE "valid"

CaseError ==
  [ absent |-> "Token is missing", no_bearer |-> "Invalid token format",
    tampered |-> "Token is invalid", expired |-> "Token has expired",
    deleted |-> "User not found" ]

C3_Claimed ==
  GateRan /\ connected /\ last.lookup = "ok"
          /\ GateCase(last.header) \in DOMAIN CaseError
    => Rejected(CaseError[GateCase(last.header)])

(***************************************************************************)
(* C4.  A token made at clock t expires at t + 24 h: the gate takes it, for *)
(* an existing user, at every clock up to t + 24 h, and answers 'Token has *)
(* expired' at every clock after.                                          *)
(***************************************************************************)
Issues == last.ep \in { "register_jwt", "login_jwt" } /\ "token" \in DOMAIN last.body

C5_Claimed == GateRan /\ last.lookup = "error" => last.status \in { 500, 503 }

(***************************************************************************)
(* SpecRegister: the two registrations, each a find and an insert that two *)
(* workers interleave, the two logins and the reads of user records.       *)
(***************************************************************************)
S_short == << "a", "b", "c", "d", "e" >>

JwtRegistrations ==
  { AliceJwt,
    [ name |-> S_Al, email |-> S_U, password |-> S_secret ],
    [ name |-> S_Al, email |-> S_U, password |-> S_short ],
    [ name |-> S_Al, email |-> S_v, password |-> S_secret ] }

UserRegistrations ==
  { [ fullName |-> S_Al, email |-> e, phone |-> S_phone, password |-> S_secret,
      confirmPassword |-> S_secret ] : e \in { S_U, S_v } }

JwtLogins == { AliceLogin, [ email |-> S_v, password |-> S_abc ] }
UserLogins == { [ email |-> S_U, password |-> S_secret ], [ email |-> S_v, password |-> S_abc ] }

\* the <user_id> of the URL: the string of an ObjectId, or any other string
NotAnId == [ text |-> S_abc ]
UserIds == { Str(oid) : oid \in 1 .. MaxUsers } \cup { NotAnId }

NextRegister ==
  \/ \E w \in Workers, data \in JwtRegistrations, find \in StoreOutcomes :
       RegisterJwtFind(w, data, find)
  \/ \E w \in Workers : RegisterJwtInsert(w)
  \/ \E w \in Workers, data \in UserRegistrations, find \in StoreOutcomes :
       RegisterUserFind(w, data, find)
  \/ \E w \in Workers : RegisterUserInsert(w)
  \/ \E data \in JwtLogins, find \in StoreOutcomes : LoginJwt(data, find)
  \/ \E data \in UserLogins, find \in StoreOutcomes : LoginUser(data, find)
  \/ \E find \in StoreOutcomes : GetAllUsers(find)
  \/ \E user_id \in UserIds, find \in StoreOutcomes : GetUser(user_id, find)
  \/ \E header \in BearerHeaders : VerifyToken(header, "ok")

SpecRegister == Init /\ [][NextRegister]_vars

(***************************************************************************)
(* SpecSequence: registrations one after the other, on either endpoint,    *)
(* with or without the unique index.                                       *)
(***************************************************************************)
NextSequence ==
  \/ \E data \in JwtRegistrations, find \in StoreOutcomes : RegisterJwtFind("w1", data, find)
  \/ RegisterJwtInsert("w1")
  \/ \E data \in UserRegistrations, find \in StoreOutcomes : RegisterUserFind("w1", data, find)
  \/ RegisterUserInsert("w1")
  \/ \E find \in StoreOutcomes : GetAllUsers(find)

SpecSequence == Init /\ [][NextSequence]_vars

RegisterEndpoints == { "register_jwt", "register_user" }

\* the email of a request or of a record, trimmed and in lower case
Normalized(email) == Lower(Strip(email))

\* the find step of a registration has just answered or passed, and the email
\* it asks for is, once normalized, the email of a user in the store
AsksTakenEmail ==
  /\ last.first
  /\ last.ep \in RegisterEndpoints
  /\ last.data # << >>
  /\ \E u \in users : Normalized(u.email) = Normalized(Get(last.data, "email"))

InsertRefused ==
  /\ ~ last.first
  /\ last.ep \in RegisterEndpoints
  /\ last.status # 201

C7_Claimed ==
  /\ \A u1 \in users, u2 \in users : u1.email = u2.email => u1 = u2
  /\ InsertRefused => /\ last.status = 400
                      /\ last.errors = [ email |-> "Email already registered" ]

(***************************************************************************)
(* C9.  No response of an endpoint that returns user data holds the stored *)
(* password hash or the password the request came with.                    *)
(***************************************************************************)
UserDataEndpoints ==
  { "register_jwt", "register_user", "login_jwt", "login_user", "verify_token",
    "get_all_users", "get_user" }

\* the records of a response body, the payload of its token among them
BodyRecords(body) ==
  (IF "user" \in DOMAIN body THEN { body.user } ELSE { })
    \cup (IF "users" \in DOMAIN body THEN body.users ELSE { })
    \cup (IF "token" \in DOMAIN body
          THEN { [ user_id |-> body.token.user_id, email |-> body.token.email ] }
          ELSE { })

\* v is a stored password hash, or the password the request came with, or its hash
IsSecret(v) ==
  \/ \E u \in users : v = u.password
  \/ /\ "password" \in DOMAIN last.data
     /\ last.data.password = v \/ v = PasswordHash(last.data.password)
  \/ /\ "confirmPassword" \in DOMAIN last.data
     /\ last.data.confirmPassword = v

C9_NoPassword ==
  last.ep \in UserDataEndpoints =>
    /\ DOMAIN last.body \subseteq { "message", "token", "user", "users", "count" }
    /\ \A r \in BodyRecords(last.body) :
         /\ "password" \notin DOMAIN r
         /\ \A f \in DOMAIN r : ~ IsSecret(r[f])

\* the list of users has just been returned, with the records of users that
\* have a password hash in the store
C9_Witness ==
  /\ last.ep = "get_all_users"
  /\ last.status = 200
  /\ Cardinality(last.body.users) = 2
  /\ \A u \in users : u.password = PasswordHash(S_secret)

(***************************************************************************)
(* SpecProducts: one registered user creates, updates and deletes products *)
(* with prices of every JSON kind.                                         *)
(***************************************************************************)
\* 9.99, 5, -5, 0, "abc", "nan", "", null
GoodPrices == { Num(999, 2), Num(5, 0) }
BadPrices == { Num(-5, 0), Num(0, 0), StrVal(S_abc), StrVal(S_nan), StrVal(<< >>), Null }
Prices == GoodPrices \cup BadPrices

ProductBodies ==
  { [ title |-> << "w" >>, description |-> << "d" >>, price |-> price ] : price \in Prices }
    \cup { [ title |-> << "w" >>, description |-> << "d" >> ] }

UpdateBodies == { [ price |-> price ] : price \in Prices } \cup { [ title |-> << "t" >> ] }

ProductIds == 1 .. MaxProducts

NextProducts ==
  \/ RegisterJwtFind("w1", AliceJwt, "ok")
  \/ RegisterJwtInsert("w1")
  \/ \E header \in BearerHeaders, data \in ProductBodies : CreateProduct(header, "ok", data)
  \/ \E header \in BearerHeaders, product_id \in ProductIds :
       GetProduct(header, "ok", product_id)
  \/ \E header \in BearerHeaders : GetProducts(header, "ok", 1, 10)
  \/ \E header \in BearerHeaders, product_id \in ProductIds, data \in UpdateBodies :
       UpdateFind("w1", header, "ok", product_id, data)
  \/ UpdateWrite("w1")
  \/ UpdateReread("w1")
  \/ \E header \in BearerHeaders, product_id \in ProductIds :
       DeleteFind("w1", header, "ok", product_id)
  \/ DeleteWrite("w1")

SpecProducts == InitIndexed /\ [][NextProducts]_vars

\* x > 0 on floats
Positive(x) == (x.kind = "fin" /\ x.m > 0) \/ (x.kind = "inf" /\ x.m > 0)

(***************************************************************************)
(* C8.  Every persisted product has a numeric price greater than 0; a      *)
(* create or an update whose price is not positive or is not a number is   *)
(* answered 400 (404 when the product is not there) and changes no price.  *)
(***************************************************************************)
C8_Claimed ==
  /\ \A p \in products : Positive(p.price)
  /\ /\ last.first
     /\ last.ep \in { "create_product", "update_product" }
     /\ last.executed
     /\ "price" \in DOMAIN last.data
     /\ last.data.price \in BadPrices
     => last.status \in { 400, 404 }

(***************************************************************************)
(* SpecValidate: the two validators, applied to a mapping and then to the  *)
(* same mapping with blanks put around some of its fields.                 *)
(***************************************************************************)
MaxPad == 1
MaxPadded == 2

S_A == << "A" >>
S_noat == << "u", ".", "c", "o" >>
S_123 == << "1", "2", "3" >>

AuthInputs ==
  [ name : { << >>, S_A, S_Al }, email : { << >>, S_u, S_U, S_noat },
    password : { << >>, S_short, S_secret } ]

RegistrationInputs ==
  [ fullName : { S_A, S_Al }, email : { S_U }, phone : { S_phone, S_123 },
    password : { S_short, S_secret }, confirmPassword : { << >>, S_secret } ]

Validators == { "validate_auth_data", "validate_registration_data" }

\* what validator fn returns for data
Validation(fn, is_login, data) ==
  IF fn = "validate_auth_data" THEN validate_auth_data(data, is_login)
  ELSE validate_registration_data(data)

\* l blanks, s, r tabs
Padded(s, l, r) == [ i \in 1 .. l |-> " " ] \o s \o [ i \in 1 .. r |-> "\t" ]

\* the validator is applied to data, once; arg keeps the call for the calls that
\* follow
Validate(fn, is_login, data) ==
  /\ last = NoResponse
  /\ last' = Reply(Req(fn, NoHeader, "ok",
                       [ is_login |-> is_login, base |-> data,
                         base_errors |-> Validation(fn, is_login, data), padded |-> { } ],
                       data),
                   0, "", Validation(fn, is_login, data), << >>, TRUE)
  /\ UNCHANGED << connected, unique_email, users, products, now, nextOid, nextUuid, tokens, pending >>

\* the validator is applied again, to the mapping with field f padded
ValidatePadded(f, l, r) ==
  /\ last.ep \in Validators
  /\ f \in DOMAIN last.data
  /\ f \notin last.arg.padded
  /\ Cardinality(last.arg.padded) < MaxPadded
  /\ l + r > 0
  /\ LET data == [ last.data EXCEPT ![f] = Padded(last.data[f], l, r) ]
     IN  last' = [ last EXCEPT !.data = data,
                               !.arg.padded = last.arg.padded \cup { f },
                               !.errors = Validation(last.ep, last.arg.is_login, data) ]
  /\ UNCHANGED << connected, unique_email, users, products, now, nextOid, nextUuid, tokens, pending >>

NextValidate ==
  \/ \E is_login \in BOOLEAN, data \in AuthInputs :
       Validate("validate_auth_data", is_login, data)
  \/ \E data \in RegistrationInputs : Validate("validate_registration_data", FALSE, data)
  \/ \E f \in { "name", "fullName", "email", "phone", "password", "confirmPassword" },
        l \in 0 .. MaxPad, r \in 0 .. MaxPad : ValidatePadded(f, l, r)

SpecValidate == InitIndexed /\ [][NextValidate]_vars

(***************************************************************************)
(* C10.  Blanks added before or after any field of the mapping (name,      *)
(* fullName, email, phone, password, confirmPassword) leave the error      *)
(* mapping of either validator as it was.                                  *)
(***************************************************************************)
C10_Claimed == last.ep \in Validators => last.errors = last.arg.base_errors

TrimmedFields == { "name", "fullName", "email", "phone" }

\* C10 as amended: blanks added before or after name, fullName, email or phone
\* leave the error mapping of either validator as it was; password and
\* confirmPassword are taken as they come, blanks included, and compared so.
C10_Trimmed ==
  last.ep \in Validators =>
    /\ last.arg.padded \subseteq TrimmedFields => last.errors = last.arg.base_errors
    /\ /\ last.ep = "validate_registration_data"
       /\ last.data.confirmPassword # << >>
       => ( "confirmPassword" \in DOMAIN last.errors
              <=> last.data.password # last.data.confirmPassword )
    /\ ( "password" \in DOMAIN last.errors <=> Len(last.data.password) < 6 )

\* a valid registration stays valid with blanks around its email and its phone
C10_Witness ==
  /\ last.ep = "validate_registration_data"
  /\ last.arg.padded = { "email", "phone" }
  /\ last.data # last.arg.base
  /\ last.errors = << >>

(***************************************************************************)
(* SpecRules: the two validators, applied to mappings whose fields are     *)
(* absent, empty, blank, too short, too long, malformed or well-formed.    *)
(***************************************************************************)
S_blank == << " " >>
S_Apad == << " ", "A", " " >>
S_tld1 == << "u", "@", "x", ".", "c" >>
S_at2 == << "u", "@", "@", "x", ".", "c", "o" >>
S_blank6 == << " ", " ", " ", " ", " ", " " >>
S_12345 == << "1", "2", "3", "4", "5" >>
S_letters == << "a", "b", "c", "d", "e", "f", "g", "h", "i", "j" >>
S_digits15 == S_12345 \o S_12345 \o S_12345
S_digits16 == S_digits15 \o << "6" >>

\* the mappings made of r's fields: all of them, all but one, none
Parts(r) ==
  { [ f \in K |-> r[f] ] :
      K \in { DOMAIN r, { } } \cup { DOMAIN r \ { f } : f \in DOMAIN r } }

RuleAuthInputs ==
  UNION { Parts(r) :
    r \in [ name : { << >>, S_blank, S_Apad, S_Al },
            email : { << >>, S_u, S_U, S_noat, S_tld1, S_at2 },
            password : { << >>, S_short, S_secret, S_blank6 } ] }

RuleRegistrationInputs ==
  UNION { Parts(r) :
    r \in [ fullName : { << >>, S_Apad, S_Al },
            email : { S_U, S_noat },
            phone : { << >>, S_blank, S_phone, S_12345, S_letters, S_digits15, S_digits16 },
            password : { << >>, S_short, S_secret },
            confirmPassword : { << >>, S_short, S_secret } ] }

NextRules ==
  \/ \E is_login \in BOOLEAN, data \in RuleAuthInputs :
       Validate("validate_auth_data", is_login, data)
  \/ \E data \in RuleRegistrationInputs : Validate("validate_registration_data", FALSE, data)

SpecRules == InitIndexed /\ [][NextRules]_vars

\* s is local@domain.tld: local and domain not empty and of the characters of
\* the documented pattern, tld of two letters or more
FitsEmailPattern(s) ==
  \E i \in 1 .. Len(s), j \in 1 .. Len(s) :
    /\ s[i] = "@" /\ s[j] = "." /\ 1 < i /\ i + 1 < j /\ j + 2 <= Len(s)
    /\ { s[k] : k \in 1 .. (i - 1) } \subseteq EmailLocalChars
    /\ { s[k] : k \in (i + 1) .. (j - 1) } \subseteq EmailDomainChars
    /\ { s[k] : k \in (j + 1) .. Len(s) } \subseteq EmailTldChars

DigitCount(s) == Cardinality({ k \in DOMAIN s : s[k] \in DigitChars })

\* field f of data violates its documented rule
Violates(f, is_login, data) ==
  LET v == Get(data, f)
  IN  CASE f = "email" -> Strip(v) = << >> \/ ~ FitsEmailPattern(Strip(v))
        [] f = "password" -> Len(v) < 6
        [] f = "name" -> ~ is_login /\ Len(Strip(v)) < 2
        [] f = "fullName" -> Len(Strip(v)) < 2
        [] f = "phone" -> Strip(v) = << >> \/ DigitCount(v) \notin 10 .. 15
        [] f = "confirmPassword" -> v = << >> \/ v # Get(data, "password")

FieldsOf(fn) ==
  IF fn = "validate_auth_data" THEN { "name", "email", "password" }
  ELSE { "fullName", "email", "phone", "password", "confirmPassword" }

(***************************************************************************)
(* C11.  The keys of the mapping a validator returns are exactly the       *)
(* fields that violate their documented rule, all of them together; the    *)
(* mapping is empty if and only if no field does.                          *)
(***************************************************************************)
C11_Rules ==
  last.ep \in Validators =>
    LET violated == { f \in FieldsOf(last.ep) : Violates(f, last.arg.is_login, last.data) }
    IN  /\ DOMAIN last.errors = violated
        /\ last.errors = << >> <=> violated = { }

\* a registration that violates four rules at once gets the four of them back
C11_Witness ==
  /\ last.ep = "validate_registration_data"
  /\ Get(last.data, "phone") = S_letters
  /\ DOMAIN last.errors = { "email", "phone", "password", "confirmPassword" }

(***************************************************************************)
(* SpecListing: a registered user lists a store of 0 .. MaxCatalogue       *)
(* products, page by page.                                                 *)
(***************************************************************************)
MaxCatalogue == 12

\* the store after n products were created from Widget by user 1
Catalogue(n) ==
  { [ id |-> i, title |-> Strip(Widget.title), description |-> Strip(Widget.description),
      price |-> Float(Widget.price), createdBy |-> Str(1) ] : i \in 1 .. n }

\* the state after AliceJwt registered at clock 0, kept its token and created
\* n products
InitListing ==
  /\ connected = TRUE
  /\ unique_email = TRUE
  /\ users = { [ _id |-> 1, name |-> Strip(AliceJwt.name), email |-> NormEmail(AliceJwt),
                 password |-> PasswordHash(AliceJwt.password) ] }
  /\ \E n \in 0 .. MaxCatalogue : products = Catalogue(n) /\ nextUuid = n + 1
  /\ now = 0
  /\ nextOid = 2
  /\ tokens = { JwtEncode(Str(1), NormEmail(AliceJwt), 0) }
  /\ pending = [ w \in Workers |-> Idle ]
  /\ last = NoResponse

\* ?page= and ?limit= of the URL, as integers
Pages == { -1, 0, 1, 2, 3, 4, 13 }
Limits == { -1, 0, 1, 2, 5, 10, 12, 100, 101 }

NextListing ==
  \E header \in BearerHeaders, page \in Pages, limit \in Limits :
    GetProducts(header, "ok", page, limit)

SpecListing == InitListing /\ [][NextListing]_vars

Min(a, b) == IF a < b THEN a ELSE b
Max(a, b) == IF a > b THEN a ELSE b

(***************************************************************************)
(* C12.  Over a store of N products, page p (a page below 1 counting as 1) *)
(* and limit l (a limit outside 1 .. 100 counting as 10), the listing      *)
(* holds min(l, max(0, N - (p-1)*l)) products, totalPages is N / l rounded *)
(* up, hasNext is p < totalPages and hasPrev is p > 1.                     *)
(***************************************************************************)
C12_Pages ==
  last.ep = "get_products" /\ last.status = 200 =>
    LET N == Cardinality(products)
        p == IF last.arg.page >= 1 THEN last.arg.page ELSE 1
        l == IF last.arg.limit \in 1 .. 100 THEN last.arg.limit ELSE 10
        body == last.body
    IN  /\ Len(body.products) = Min(l, Max(0, N - (p - 1) * l))
        /\ \A i \in DOMAIN body.products : body.products[i] \in products
        /\ \A i \in DOMAIN body.products, j \in DOMAIN body.products :
             body.products[i] = body.products[j] => i = j
        /\ body.totalPages * l >= N
        /\ (body.totalPages - 1) * l < N
        /\ body.hasNext <=> p < body.totalPages
        /\ body.hasPrev <=> p > 1
        /\ body.currentPage = p
        /\ body.itemsPerPage = l
        /\ body.totalItems = N

\* page 2 by 5 of 12 products: 5 products, 3 pages, a next and a previous page
C12_Witness ==
  /\ last.ep = "get_products"
  /\ last.status = 200
  /\ Cardinality(products) = 12
  /\ last.arg = [ page |-> 2, limit |-> 5 ]
  /\ Len(last.body.products) = 5
  /\ last.body.totalPages = 3
  /\ last.body.hasNext
  /\ last.body.hasPrev

(***************************************************************************)
(* SpecRace: one worker updates the products of the store while the other  *)
(* deletes them, each between any two store operations of the other.       *)
(***************************************************************************)
\* the state after AliceJwt registered, kept its token and created
\* MaxProducts products
InitRace == InitListing /\ products = Catalogue(MaxProducts)

NextRace ==
  \/ \E header \in BearerHeaders, product_id \in ProductIds, data \in UpdateBodies :
       UpdateFind("w1", header, "ok", product_id, data)
  \/ UpdateWrite("w1")
  \/ UpdateReread("w1")
  \/ \E header \in BearerHeaders, product_id \in ProductIds :
       DeleteFind("w2", header, "ok", product_id)
  \/ DeleteWrite("w2")

SpecRace == InitRace /\ [][NextRace]_vars

(***************************************************************************)
(* C13.  An update that passed the gate is answered 200, 400 or 404,       *)
(* whatever a delete of the same product does between its store            *)
(* operations: it is never answered 500.                                   *)
(***************************************************************************)
C13_Claimed ==
  last.ep = "update_product" /\ last.executed /\ last.status # 0 =>
    last.status \in { 200, 400, 404 }

(***************************************************************************)
(* SpecFrame: registrations, logins and the product endpoints, with and    *)
(* without the store, with good and bad headers, bodies and prices; the    *)
(* update bodies carry title and description with the price, or an id and  *)
(* a createdBy of their own.                                               *)
(***************************************************************************)
Foreign == [ id |-> MaxProducts + 1, createdBy |-> Str(MaxUsers + 1) ]

FrameCreateBodies == ProductBodies \cup { Widget @@ Foreign }

FrameUpdateBodies ==
  { [ title |-> << "t" >>, description |-> << "e" >>, price |-> price ] : price \in Prices }
    \cup { [ title |-> << "t" >> ] @@ Foreign }

NextFrame ==
  \/ \E data \in JwtRegistrations : RegisterJwtFind("w1", data, "ok")
  \/ RegisterJwtInsert("w1")
  \/ \E data \in JwtLogins : LoginJwt(data, "ok")
  \/ \E header \in PlainHeaders, data \in FrameCreateBodies : CreateProduct(header, "ok", data)
  \/ \E header \in PlainHeaders, product_id \in ProductIds, data \in FrameUpdateBodies :
       UpdateFind("w1", header, "ok", product_id, data)
  \/ UpdateWrite("w1")
  \/ UpdateReread("w1")
  \/ \E header \in PlainHeaders, product_id \in ProductIds :
       DeleteFind("w2", header, "ok", product_id)
  \/ DeleteWrite("w2")

SpecFrame == InitIndexed /\ [][NextFrame]_vars

\* a step that answers 4xx or 503 leaves users and products as they were
C14_Refused ==
  last'.status \in 400 .. 499 \cup { 503 } => users' = users /\ products' = products

\* the update_one of an update whose price is not a positive number writes
\* nothing
C14_NoPartialWrite ==
  \A w \in Workers :
    /\ pending[w].pc = "update_one"
    /\ pending'[w].pc = "find_one"
    /\ "price" \in DOMAIN pending[w].data
    /\ pending[w].data.price \in BadPrices
    => products' = products

IdentityOf(docs) == { << p.id, p.createdBy >> : p \in docs }

\* but for a delete, a step keeps the id and the createdBy of every product,
\* and adds those of the product it creates
C14_Identity ==
  LET created == IF last'.ep = "create_product" /\ last'.status = 201
                 THEN { last'.body.product } ELSE { }
  IN  ~ (last'.ep = "delete_product" /\ last'.status = 200) =>
        /\ IdentityOf(products') = IdentityOf(products) \cup IdentityOf(created)
        /\ Cardinality(products') = Cardinality(products) + Cardinality(created \ products)

(***************************************************************************)
(* C14.  A request answered 4xx or 503 leaves the users and the products   *)
(* as they were; an update with a title, a description and a price that is *)
(* not a positive number writes none of them; no update and no create      *)
(* changes the id or the createdBy of a product.                           *)
(***************************************************************************)
C14_Claimed == [][C14_Refused /\ C14_NoPartialWrite /\ C14_Identity]_vars

====
